---- MODULE Spec2Model ----
(***************************************************************************)
(* Model of the CMSIS interrupt-masking layer (interrupt_handling.c/.h):   *)
(* PRIMASK critical sections, BASEPRI threshold sections, NVIC line-enable *)
(* masks and the IRQ state queries, on a single core whose only            *)
(* concurrency is interrupt preemption.                                    *)
(***************************************************************************)
EXTENDS Integers, Sequences, FiniteSets, TLC

\* ------------------------------------------------------------ constants

INTERRUPT_LOWEST_PRIORITY == 7
INTERRUPT_HIGHEST_PRIORITY == 0
MAX_NVIC_REG_WORDS == 8
\* __NVIC_PRIO_BITS of the device header the code is built against (stm32f4xx.h)
NVIC_PRIO_BITS == 4
BASEPRI_START_BIT == 8 - NVIC_PRIO_BITS
\* IRQn_Type values of the core exceptions named in IRQ_IsIRQnBlocked's assertion
MemoryManagement_IRQn == -12
SVCall_IRQn == -5

\* ------------------------------------------------------------ bounds

\* deepest nesting of open sections plus preempting handlers
MaxDepth == 2

\* ------------------------------------------------------------ inputs

\* builds: __CORTEX_M of the target (0: no BASEPRI register, 4: with BASEPRI)
CortexBuilds == {0, 4}
\* arguments given to BASEPRI_SetPriorityLevelThreshold (uint8_t)
LevelInputs == {0, 5, 8}
\* peripheral lines whose handlers preempt, in word 0 and word 1 of the enable register
Lines == {3, 33}
\* arguments given to it where the threshold controller is checked on its own
\* priority-field widths of devices that have BASEPRI (ARMv7-M: 3 to 8 bits)
PrioBitsWidths == 3 .. 8
LevelInputsAll == (0 .. 8) \cup {255}
\* arguments given to IRQ_IsIRQnBlocked within its documented precondition
BlockedInputs == Lines \cup {-1}
\* arguments given to the mask helpers and NVIC_IsIRQnDisabled (IRQn_Type, a 32-bit
\* enum): lines of word 0 and word 7, a core exception, 0xF0, and a value beyond int16_t
IRQnInputs == {3, 239, -1, 240, 65536 + 3}
\* arguments given to IRQ_IsIRQnBlocked inside and outside the range its ASSERT accepts
AssertInputs == {3, 239, -1, -5, -6, -12, -13, 240}
\* lines named in the masks given to NVIC_TriggerSpecificPendingInterrupts: the two
\* whose handlers preempt and one of word 7
PulseLines == Lines \cup {239}

\* ------------------------------------------------------------ integer conversions

Pow2(n) == IF n = 0 THEN 1 ELSE 2 ^ n
\* (int16_t)x
Int16(x) == LET u == x % 65536 IN IF u >= 32768 THEN u - 65536 ELSE u
\* (uint8_t)x
Uint8(x) == x % 256
\* x << n and x >> n on non-negative values
Shl(x, n) == x * Pow2(n)
Shr(x, n) == x \div Pow2(n)

\* ------------------------------------------------------------ macros

IS_EXCEPTION_NUM(IRQn) == Int16(IRQn) >= -16 /\ Int16(IRQn) < 0
IS_INTERRUPT_NUM(IRQn) == Int16(IRQn) >= 0 /\ Int16(IRQn) < 240
\* mutant: the lower bound taken as inclusive
IS_INT_LVL_VALID_Inclusive(intLevel) ==
  INTERRUPT_HIGHEST_PRIORITY <= intLevel /\ intLevel <= INTERRUPT_LOWEST_PRIORITY
IS_INT_LVL_VALID(intLevel) ==
  INTERRUPT_HIGHEST_PRIORITY < intLevel /\ intLevel <= INTERRUPT_LOWEST_PRIORITY

\* ------------------------------------------------------------ NVIC_Mask_t

Words == 0 .. (MAX_NVIC_REG_WORDS - 1)
\* a mask is 8 words of 32 bits; a word is the set of its bit positions that are 1
ZeroMask == [w \in Words |-> {}]
MaskAnd(a, b) == [w \in Words |-> a[w] \cap b[w]]
MaskOr(a, b) == [w \in Words |-> a[w] \cup b[w]]
MaskAndNot(a, b) == [w \in Words |-> a[w] \ b[w]]
\* the mask whose 1 bits are the given lines
MaskOf(ls) == [w \in Words |-> {l % 32 : l \in {k \in ls : k \div 32 = w}}]
LineIn(l, m) == (l % 32) \in m[l \div 32]

\* ------------------------------------------------------------ state

VARIABLES
  cortexM,       \* __CORTEX_M of the build
  primask,       \* PRIMASK register, bit 0
  basepri,       \* BASEPRI register (8 bits, the low BASEPRI_START_BIT read as zero)
  basePriLevel,  \* static int8_t basePriLevel
  iser,          \* NVIC line-enable state, read through ISER[0..7] or ICER[0..7]
  vectactive,    \* SCB->ICSR VECTACTIVE: 0 in thread mode, 16 + line in a handler
  mask,          \* the caller's NVIC_Mask_t, built with the set/clear helpers
  stack,         \* open sections (the caller-held irqState / nvicState) and preempted contexts
  pc,            \* position of the running context inside a multi-step operation
  local,         \* scalar local of the operation in progress: irqState of
                 \* BASEPRI_TriggerPendingInterruptsByThreshold, the index of the next
                 \* word of a multi-word register copy
  nvicMask,      \* nvicMask local of NVIC_TriggerSpecificPendingInterrupts
  call,          \* the NVIC_TriggerSpecificPendingInterrupts call in progress: the enable
                 \* register at the call, whether no handler has run inside it, and the
                 \* lines handlers have enabled inside it
  last           \* the last call made: its name and the value it returned

vars == <<cortexM, primask, basepri, basePriLevel, iser, vectactive, mask, stack,
          pc, local, nvicMask, call, last>>

\* ------------------------------------------------------------ hardware

\* priority configured for each peripheral line (NVIC->IP, read by NVIC_GetPriority)
NVIC_GetPriority(irq) == CASE irq = 3 -> 3 [] irq = 33 -> 6 [] irq = 239 -> 1 [] OTHER -> 0
\* MSR BASEPRI: 8 bits, of which only the upper NVIC_PRIO_BITS are implemented
set_BASEPRI(value) == Shl(Shr(value % 256, BASEPRI_START_BIT), BASEPRI_START_BIT)
\* a write of m to ISER[0..7] enables the lines whose bit is 1 and leaves the others
ISER_Write(reg, m) == MaskOr(reg, m)
\* a write of m to ICER[0..7] disables the lines whose bit is 1 and leaves the others
ICER_Write(reg, m) == MaskAndNot(reg, m)
\* the core takes the interrupt of a line: not PRIMASK-masked, enabled, more urgent
\* than BASEPRI (when BASEPRI is not 0) and than the active handler
CanPreempt(line) ==
  /\ primask = 0
  /\ LineIn(line, iser)
  /\ (basepri = 0 \/ NVIC_GetPriority(line) < Shr(basepri, BASEPRI_START_BIT))
  /\ (vectactive = 0 \/ NVIC_GetPriority(line) < NVIC_GetPriority(vectactive - 16))

\* ------------------------------------------------------------ bookkeeping

Frame(kind, saved, pre, p) == [kind |-> kind, saved |-> saved, pre |-> pre, taint |-> 0, pc |-> p]
Top == stack[Len(stack)]
Pop == SubSeq(stack, 1, Len(stack) - 1)
Max(a, b) == IF a >= b THEN a ELSE b
\* marks every open section: 1 a TriggerPending unmasked inside it, 2 the mask was
\* set or cleared inside it by a non-nestable DisableIrq/EnableIrq
Taint(stk, t) == [i \in DOMAIN stk |-> [stk[i] EXCEPT !.taint = Max(@, t)]]
Called(op, ret) == last' = [op |-> op, ret |-> ret]
Bool(b) == IF b THEN 1 ELSE 0
\* no NVIC_TriggerSpecificPendingInterrupts call is being followed
NoCall == [reg |-> ZeroMask, clean |-> FALSE, enabled |-> ZeroMask]
\* a line-enable call made by a handler while a pulse is being followed: the lines it
\* enabled are remembered until somebody disables them
NoteEnabled(enable) ==
  call' = (IF call = NoCall THEN call ELSE [call EXCEPT !.enabled = MaskOr(@, enable)])
NoteDisabled(disable) ==
  call' = (IF call = NoCall THEN call ELSE [call EXCEPT !.enabled = MaskAndNot(@, disable)])

Init ==
  /\ cortexM \in CortexBuilds
  /\ primask = 0
  /\ basepri = 0
  /\ basePriLevel = (IF cortexM >= 3 THEN 3 ELSE -1)
  /\ iser = ZeroMask
  /\ vectactive = 0
  /\ mask = ZeroMask
  /\ stack = <<>>
  /\ pc = "idle"
  /\ local = 0
  /\ nvicMask = ZeroMask
  /\ call = NoCall
  /\ last = [op |-> "reset", ret |-> 0]

\* ------------------------------------------------------------ PRIMASK

\* mutant: __enable_irq() whatever irqState says
ExitCritical_Unconditional(irqState, p) == 0
\* the PRIMASK value PRIMASK_ExitCriticalSection(irqState) leaves
ExitCritical(irqState, p) == IF irqState = 0 THEN 0 ELSE p

\* mutant: the state is saved but __disable_irq() is left out
PRIMASK_EnterCriticalSection_NoDisable ==
  /\ pc = "idle"
  /\ Len(stack) < MaxDepth
  /\ stack' = Append(stack, Frame("primask", primask, primask, "idle"))
  /\ Called("PRIMASK_EnterCriticalSection", primask)
  /\ UNCHANGED <<cortexM, nvicMask, call, primask, basepri, basePriLevel, iser, vectactive, mask, pc, local>>

PRIMASK_EnterCriticalSection ==
  /\ pc = "idle"
  /\ Len(stack) < MaxDepth
  /\ stack' = Append(stack, Frame("primask", primask, primask, "idle"))
  /\ primask' = 1
  /\ Called("PRIMASK_EnterCriticalSection", primask)
  /\ UNCHANGED <<cortexM, nvicMask, call, basepri, basePriLevel, iser, vectactive, mask, pc, local>>

PRIMASK_ExitCriticalSection ==
  /\ pc = "idle"
  /\ stack # <<>>
  /\ Top.kind = "primask"
  /\ primask' = ExitCritical(Top.saved, primask)
  /\ stack' = Pop
  /\ Called("PRIMASK_ExitCriticalSection", 0)
  /\ UNCHANGED <<cortexM, nvicMask, call, basepri, basePriLevel, iser, vectactive, mask, pc, local>>

PRIMASK_DisableIrq ==
  /\ pc = "idle"
  /\ primask' = 1
  /\ stack' = Taint(stack, 2)
  /\ Called("PRIMASK_DisableIrq", 0)
  /\ UNCHANGED <<cortexM, nvicMask, call, basepri, basePriLevel, iser, vectactive, mask, pc, local>>

PRIMASK_EnableIrq ==
  /\ pc = "idle"
  /\ primask' = 0
  /\ stack' = Taint(stack, 2)
  /\ Called("PRIMASK_EnableIrq", 0)
  /\ UNCHANGED <<cortexM, nvicMask, call, basepri, basePriLevel, iser, vectactive, mask, pc, local>>

\* the call up to the barrier: masked, it unmasks and reaches __ISB(); unmasked, it returns
PRIMASK_TriggerPendingInterrupts ==
  /\ pc = "idle"
  /\ IF primask # 0
       THEN /\ primask' = 0
            /\ pc' = "primask_isb"
            /\ stack' = Taint(stack, 1)
       ELSE UNCHANGED <<primask, pc, stack>>
  /\ Called("PRIMASK_TriggerPendingInterrupts", 0)
  /\ UNCHANGED <<cortexM, nvicMask, call, basepri, basePriLevel, iser, vectactive, mask, local>>

\* mutant: the call returns after the barrier without __disable_irq()
PRIMASK_TriggerPendingInterrupts_NoRemask ==
  /\ pc = "primask_isb"
  /\ primask' = primask
  /\ pc' = "idle"
  /\ Called("PRIMASK_TriggerPendingInterrupts_Remask", 0)
  /\ UNCHANGED <<cortexM, nvicMask, call, basepri, basePriLevel, iser, vectactive, mask, stack, local>>

\* after the barrier: __disable_irq() and return
PRIMASK_TriggerPendingInterrupts_Remask ==
  /\ pc = "primask_isb"
  /\ primask' = 1
  /\ pc' = "idle"
  /\ Called("PRIMASK_TriggerPendingInterrupts_Remask", 0)
  /\ UNCHANGED <<cortexM, nvicMask, call, basepri, basePriLevel, iser, vectactive, mask, stack, local>>

\* ------------------------------------------------------------ interrupts

\* exception entry of a peripheral line's handler, preempting the running context
IrqEntry(line) ==
  /\ CanPreempt(line)
  /\ Len(stack) < MaxDepth
  /\ stack' = Append(stack, Frame("isr", vectactive, <<local, nvicMask>>, pc))
  /\ vectactive' = line + 16
  /\ pc' = "idle"
  /\ local' = 0
  /\ nvicMask' = ZeroMask
  /\ Called("IrqEntry", 0)
  /\ UNCHANGED <<cortexM, call, primask, basepri, basePriLevel, iser, mask>>

\* exception return: the handler has closed its own sections; the preempted context resumes
IrqReturn ==
  /\ pc = "idle"
  /\ stack # <<>>
  /\ Top.kind = "isr"
  /\ vectactive' = Top.saved
  /\ pc' = Top.pc
  /\ local' = Top.pre[1]
  /\ nvicMask' = Top.pre[2]
  /\ call' = (IF Top.pc = "idle" \/ call = NoCall
                THEN call
                ELSE [call EXCEPT !.clean = FALSE, !.reg = ZeroMask])
  /\ stack' = Pop
  /\ Called("IrqReturn", 0)
  /\ UNCHANGED <<cortexM, primask, basepri, basePriLevel, iser, mask>>

\* ------------------------------------------------------------ BASEPRI

\* mutant: the level is checked and stored on every build
BASEPRI_SetPriorityLevelThreshold_AnyBuild(inputBasePriLevel) ==
  /\ pc = "idle"
  /\ IF IS_INT_LVL_VALID(inputBasePriLevel)
       THEN /\ basePriLevel' = inputBasePriLevel
            /\ Called("BASEPRI_SetPriorityLevelThreshold", 1)
       ELSE /\ basePriLevel' = basePriLevel
            /\ Called("BASEPRI_SetPriorityLevelThreshold", 0)
  /\ UNCHANGED <<cortexM, nvicMask, call, primask, basepri, iser, vectactive, mask, stack, pc, local>>

BASEPRI_SetPriorityLevelThreshold(inputBasePriLevel) ==
  /\ pc = "idle"
  /\ IF cortexM >= 3 /\ IS_INT_LVL_VALID(inputBasePriLevel)
       THEN /\ basePriLevel' = inputBasePriLevel
            /\ Called("BASEPRI_SetPriorityLevelThreshold", 1)
       ELSE /\ basePriLevel' = basePriLevel
            /\ Called("BASEPRI_SetPriorityLevelThreshold", 0)
  /\ UNCHANGED <<cortexM, nvicMask, call, primask, basepri, iser, vectactive, mask, stack, pc, local>>

\* the value BASEPRI_GetPriorityLevelThreshold returns
GetPriorityLevelThreshold == basePriLevel

BASEPRI_GetPriorityLevelThreshold ==
  /\ pc = "idle"
  /\ Called("BASEPRI_GetPriorityLevelThreshold", GetPriorityLevelThreshold)
  /\ UNCHANGED <<cortexM, nvicMask, call, primask, basepri, basePriLevel, iser, vectactive, mask, stack,
                 pc, local>>

\* mutant: the level written without the shift into the priority field
ThresholdValue_NoShift == basePriLevel
\* mutant: the level shifted past the eight bits of the register
BasePriValue_PastRegister(level, prioBits) == Shl(level, 8)
\* level << (8U - __NVIC_PRIO_BITS), for a device with prioBits priority bits
BasePriValue(level, prioBits) == Shl(level, 8 - prioBits)
\* basePriLevel << BASEPRI_START_BIT
ThresholdValue == BasePriValue(basePriLevel, NVIC_PRIO_BITS)

BASEPRI_EnterInterruptsDisabledByThresholdSection ==
  /\ pc = "idle"
  /\ Len(stack) < MaxDepth
  /\ IF cortexM >= 3
       THEN /\ stack' = Append(stack, Frame("basepri", basepri, basepri, "idle"))
            /\ basepri' = set_BASEPRI(ThresholdValue)
            /\ primask' = primask
            /\ Called("BASEPRI_EnterInterruptsDisabledByThresholdSection", basepri)
       ELSE /\ stack' = Append(stack, Frame("basepri", primask, primask, "idle"))
            /\ primask' = 1
            /\ basepri' = basepri
            /\ Called("BASEPRI_EnterInterruptsDisabledByThresholdSection", primask)
  /\ UNCHANGED <<cortexM, nvicMask, call, basePriLevel, iser, vectactive, mask, pc, local>>

\* mutant: Exit re-enables (writes 0) instead of writing back the saved value
BASEPRI_ExitInterruptsDisabledByThresholdSection_Zero ==
  /\ pc = "idle"
  /\ stack # <<>>
  /\ Top.kind = "basepri"
  /\ IF cortexM >= 3
       THEN /\ basepri' = set_BASEPRI(0)
            /\ primask' = primask
       ELSE /\ primask' = ExitCritical(Top.saved, primask)
            /\ basepri' = basepri
  /\ stack' = Pop
  /\ Called("BASEPRI_ExitInterruptsDisabledByThresholdSection", 0)
  /\ UNCHANGED <<cortexM, nvicMask, call, basePriLevel, iser, vectactive, mask, pc, local>>

BASEPRI_ExitInterruptsDisabledByThresholdSection ==
  /\ pc = "idle"
  /\ stack # <<>>
  /\ Top.kind = "basepri"
  /\ IF cortexM >= 3
       THEN /\ basepri' = set_BASEPRI(Top.saved)
            /\ primask' = primask
       ELSE /\ primask' = ExitCritical(Top.saved, primask)
            /\ basepri' = basepri
  /\ stack' = Pop
  /\ Called("BASEPRI_ExitInterruptsDisabledByThresholdSection", 0)
  /\ UNCHANGED <<cortexM, nvicMask, call, basePriLevel, iser, vectactive, mask, pc, local>>

BASEPRI_DisableIrqByThreshold ==
  /\ pc = "idle"
  /\ IF cortexM >= 3
       THEN /\ basepri' = set_BASEPRI(ThresholdValue)
            /\ UNCHANGED <<primask, stack>>
       ELSE /\ primask' = 1
            /\ stack' = Taint(stack, 2)
            /\ basepri' = basepri
  /\ Called("BASEPRI_DisableIrqByThreshold", 0)
  /\ UNCHANGED <<cortexM, nvicMask, call, basePriLevel, iser, vectactive, mask, pc, local>>

BASEPRI_EnableIrqByThreshold ==
  /\ pc = "idle"
  /\ IF cortexM >= 3
       THEN /\ basepri' = set_BASEPRI(0)
            /\ UNCHANGED <<primask, stack>>
       ELSE /\ primask' = 0
            /\ stack' = Taint(stack, 2)
            /\ basepri' = basepri
  /\ Called("BASEPRI_EnableIrqByThreshold", 0)
  /\ UNCHANGED <<cortexM, nvicMask, call, basePriLevel, iser, vectactive, mask, pc, local>>

\* the call up to the barrier
BASEPRI_TriggerPendingInterruptsByThreshold ==
  /\ pc = "idle"
  /\ IF cortexM >= 3
       THEN IF basepri >= ThresholdValue
              THEN /\ local' = basepri
                   /\ basepri' = set_BASEPRI(0)
                   /\ pc' = "basepri_isb"
                   /\ UNCHANGED <<primask, stack>>
              ELSE UNCHANGED <<local, basepri, pc, primask, stack>>
       ELSE IF primask # 0
              THEN /\ primask' = 0
                   /\ pc' = "primask_isb"
                   /\ stack' = Taint(stack, 1)
                   /\ UNCHANGED <<local, basepri>>
              ELSE UNCHANGED <<local, basepri, pc, primask, stack>>
  /\ Called("BASEPRI_TriggerPendingInterruptsByThreshold", 0)
  /\ UNCHANGED <<cortexM, nvicMask, call, basePriLevel, iser, vectactive, mask>>

\* after the barrier: __set_BASEPRI(irqState) and return
BASEPRI_TriggerPendingInterruptsByThreshold_Restore ==
  /\ pc = "basepri_isb"
  /\ basepri' = set_BASEPRI(local)
  /\ pc' = "idle"
  /\ local' = 0
  /\ Called("BASEPRI_TriggerPendingInterruptsByThreshold_Restore", 0)
  /\ UNCHANGED <<cortexM, nvicMask, call, primask, basePriLevel, iser, vectactive, mask, stack>>

\* ------------------------------------------------------------ Enter, instruction by instruction

\* PRIMASK_EnterCriticalSection up to its read: irqState = __get_PRIMASK()
PRIMASK_EnterCriticalSection_Read ==
  /\ pc = "idle"
  /\ Len(stack) < MaxDepth
  /\ local' = primask
  /\ pc' = "primask_read"
  /\ Called("PRIMASK_EnterCriticalSection_Read", 0)
  /\ UNCHANGED <<cortexM, nvicMask, call, primask, basepri, basePriLevel, iser, vectactive, mask, stack>>

\* the rest of it: __disable_irq() and return irqState
PRIMASK_EnterCriticalSection_Write ==
  /\ pc = "primask_read"
  /\ stack' = Append(stack, Frame("primask", local, primask, "idle"))
  /\ primask' = 1
  /\ pc' = "idle"
  /\ local' = 0
  /\ Called("PRIMASK_EnterCriticalSection", local)
  /\ UNCHANGED <<cortexM, nvicMask, call, basepri, basePriLevel, iser, vectactive, mask>>

\* BASEPRI_EnterInterruptsDisabledByThresholdSection up to its read:
\* irqState = __get_BASEPRI(), or the read of PRIMASK_EnterCriticalSection
BASEPRI_EnterInterruptsDisabledByThresholdSection_Read ==
  /\ pc = "idle"
  /\ Len(stack) < MaxDepth
  /\ local' = (IF cortexM >= 3 THEN basepri ELSE primask)
  /\ pc' = "basepri_read"
  /\ Called("BASEPRI_EnterInterruptsDisabledByThresholdSection_Read", 0)
  /\ UNCHANGED <<cortexM, nvicMask, call, primask, basepri, basePriLevel, iser, vectactive, mask, stack>>

\* mutant: the value returned is the one just written, not the one read
BASEPRI_EnterInterruptsDisabledByThresholdSection_Write_ReturnsWritten ==
  /\ pc = "basepri_read"
  /\ IF cortexM >= 3
       THEN /\ basepri' = set_BASEPRI(ThresholdValue)
            /\ stack' = Append(stack, Frame("basepri", basepri', basepri, "idle"))
            /\ primask' = primask
            /\ Called("BASEPRI_EnterInterruptsDisabledByThresholdSection", basepri')
       ELSE /\ primask' = 1
            /\ stack' = Append(stack, Frame("basepri", primask', primask, "idle"))
            /\ basepri' = basepri
            /\ Called("BASEPRI_EnterInterruptsDisabledByThresholdSection", primask')
  /\ pc' = "idle"
  /\ local' = 0
  /\ UNCHANGED <<cortexM, nvicMask, call, basePriLevel, iser, vectactive, mask>>

\* the rest of it: __set_BASEPRI(basePriLevel << BASEPRI_START_BIT), or
\* __disable_irq(), and return irqState
BASEPRI_EnterInterruptsDisabledByThresholdSection_Write ==
  /\ pc = "basepri_read"
  /\ stack' = Append(stack, Frame("basepri", local,
                                  IF cortexM >= 3 THEN basepri ELSE primask, "idle"))
  /\ IF cortexM >= 3
       THEN /\ basepri' = set_BASEPRI(ThresholdValue)
            /\ primask' = primask
       ELSE /\ primask' = 1
            /\ basepri' = basepri
  /\ pc' = "idle"
  /\ local' = 0
  /\ Called("BASEPRI_EnterInterruptsDisabledByThresholdSection", local)
  /\ UNCHANGED <<cortexM, nvicMask, call, basePriLevel, iser, vectactive, mask>>

\* ------------------------------------------------------------ NVIC masks

\* PRIMASK after PRIMASK_EnterNoInterruptsSection(); the call returns the prior value
PRIMASK_EnterNoInterruptsSection(p) == 1
\* PRIMASK after PRIMASK_ExitNoInterruptsSection(irqState)
PRIMASK_ExitNoInterruptsSection(irqState, p) == IF irqState = 0 THEN 0 ELSE p
\* mutant: EXIT_NO_INTERRUPTS_SECTION() is left out of the macro
NO_INTERRUPTS_SECTION_NoExit(p) == PRIMASK_EnterNoInterruptsSection(p)
\* PRIMASK after NO_INTERRUPTS_SECTION(...) entered with PRIMASK = p
NO_INTERRUPTS_SECTION(p) ==
  PRIMASK_ExitNoInterruptsSection(p, PRIMASK_EnterNoInterruptsSection(p))

\* mask->reg[(uint8_t)irqNum >> 5] |= 1UL << ((uint8_t)irqNum & 0x1FUL)
SetInMask(irqNum, m) ==
  IF IS_INTERRUPT_NUM(irqNum)
    THEN [m EXCEPT ![Shr(Uint8(irqNum), 5)] = @ \cup {Uint8(irqNum) % 32}]
    ELSE m
\* mutant: the complement is left out, &= (1UL << bit)
ClearInMask_NoComplement(irqNum, m) ==
  IF IS_INTERRUPT_NUM(irqNum)
    THEN [m EXCEPT ![Shr(Uint8(irqNum), 5)] = @ \cap {Uint8(irqNum) % 32}]
    ELSE m
\* mask->reg[(uint8_t)irqNum >> 5] &= ~(1UL << ((uint8_t)irqNum & 0x1FUL))
ClearInMask(irqNum, m) ==
  IF IS_INTERRUPT_NUM(irqNum)
    THEN [m EXCEPT ![Shr(Uint8(irqNum), 5)] = @ \ {Uint8(irqNum) % 32}]
    ELSE m

NVIC_SetSpecificInterruptInAMask(irqNum) ==
  /\ pc = "idle"
  /\ mask' = SetInMask(irqNum, mask)
  /\ Called("NVIC_SetSpecificInterruptInAMask", 0)
  /\ UNCHANGED <<cortexM, nvicMask, call, primask, basepri, basePriLevel, iser, vectactive, stack, pc, local>>

NVIC_ClearSpecificInterruptInAMask(irqNum) ==
  /\ pc = "idle"
  /\ mask' = ClearInMask(irqNum, mask)
  /\ Called("NVIC_ClearSpecificInterruptInAMask", 0)
  /\ UNCHANGED <<cortexM, nvicMask, call, primask, basepri, basePriLevel, iser, vectactive, stack, pc, local>>

\* the enable state after NVIC_DisableSpecificInterrupts(disable)
DisableSpecific(reg, disable) == ICER_Write(reg, disable)
\* the enable state after NVIC_EnableSpecificInterrupts(enable)
EnableSpecific(reg, enable) == ISER_Write(reg, enable)

\* mutant: the store of *disable overwrites the enable state as it would plain memory
NVIC_EnterSpecificInterruptDisabledSection_Replace(disable) ==
  /\ pc = "idle"
  /\ Len(stack) < MaxDepth
  /\ stack' = Append(stack, Frame("nvic", iser, iser, "idle"))
  /\ iser' = disable
  /\ primask' = NO_INTERRUPTS_SECTION(primask)
  /\ Called("NVIC_EnterSpecificInterruptDisabledSection", 0)
  /\ UNCHANGED <<cortexM, nvicMask, call, basepri, basePriLevel, vectactive, mask, pc, local>>

\* nvicState is kept by the caller until the matching Exit
NVIC_EnterSpecificInterruptDisabledSection(disable) ==
  /\ pc = "idle"
  /\ Len(stack) < MaxDepth
  /\ stack' = Append(stack, Frame("nvic", iser, iser, "idle"))
  /\ iser' = ICER_Write(iser, disable)
  /\ primask' = NO_INTERRUPTS_SECTION(primask)
  /\ Called("NVIC_EnterSpecificInterruptDisabledSection", 0)
  /\ UNCHANGED <<cortexM, nvicMask, call, basepri, basePriLevel, vectactive, mask, pc, local>>

\* called with the nvicState its Enter filled
NVIC_ExitSpecificInterruptDisabledSection ==
  /\ pc = "idle"
  /\ stack # <<>>
  /\ Top.kind = "nvic"
  /\ iser' = DisableSpecific(iser, Top.saved)
  /\ primask' = NO_INTERRUPTS_SECTION(primask)
  /\ stack' = Pop
  /\ Called("NVIC_ExitSpecificInterruptDisabledSection", 0)
  /\ UNCHANGED <<cortexM, nvicMask, call, basepri, basePriLevel, vectactive, mask, pc, local>>

NVIC_DisableSpecificInterrupts(disable) ==
  /\ pc = "idle"
  /\ iser' = DisableSpecific(iser, disable)
  /\ primask' = NO_INTERRUPTS_SECTION(primask)
  /\ NoteDisabled(disable)
  /\ Called("NVIC_DisableSpecificInterrupts", 0)
  /\ UNCHANGED <<cortexM, nvicMask, basepri, basePriLevel, vectactive, mask, stack, pc, local>>

NVIC_EnableSpecificInterrupts(enable) ==
  /\ pc = "idle"
  /\ iser' = EnableSpecific(iser, enable)
  /\ primask' = NO_INTERRUPTS_SECTION(primask)
  /\ NoteEnabled(enable)
  /\ Called("NVIC_EnableSpecificInterrupts", 0)
  /\ UNCHANGED <<cortexM, nvicMask, basepri, basePriLevel, vectactive, mask, stack, pc, local>>

\* values the uninitialised loop counter i (for (size_t i; ...)) can start from;
\* MAX_NVIC_REG_WORDS stands for every value that skips the loop
LoopStarts == 0 .. MAX_NVIC_REG_WORDS

\* nvicMask after the loop of NVIC_TriggerSpecificPendingInterrupts started at i0: the
\* words the loop visits hold ~(snapshot & enable) & enable, the words it skips still
\* hold the snapshot of ISER
PulseMask(enable, snapshot, i0) ==
  [w \in Words |-> IF w >= i0 THEN enable[w] \ (snapshot[w] \cap enable[w])
                             ELSE snapshot[w]]
\* shouldTrigger after that loop
ShouldTrigger(enable, snapshot, i0) ==
  \E w \in Words : w >= i0 /\ PulseMask(enable, snapshot, i0)[w] # {}

\* the call up to the first store to ISER: the snapshot inside NO_INTERRUPTS_SECTION,
\* the loop, and either the return or the start of the copy of nvicMask to ISER[0..7]
NVIC_TriggerSpecificPendingInterrupts(enable) ==
  /\ pc = "idle"
  /\ primask' = NO_INTERRUPTS_SECTION(primask)
  /\ \E i0 \in LoopStarts :
       IF ShouldTrigger(enable, iser, i0)
         THEN /\ nvicMask' = PulseMask(enable, iser, i0)
              /\ pc' = "nvic_iser"
              /\ call' = [reg |-> iser, clean |-> TRUE, enabled |-> ZeroMask]
         ELSE /\ nvicMask' = ZeroMask
              /\ pc' = "idle"
              /\ call' = NoCall
  /\ local' = 0
  /\ Called("NVIC_TriggerSpecificPendingInterrupts", 0)
  /\ UNCHANGED <<cortexM, basepri, basePriLevel, iser, vectactive, mask, stack>>

\* the copy of the 8 words of m to ISER or ICER stores them in ascending order; a
\* store of an all-zero word changes nothing in either register and is taken together
\* with the store next to it. The word stored by the step of a copy that has reached i:
NextStore(m, i) ==
  IF \E w \in Words : w >= i /\ m[w] # {}
    THEN CHOOSE w \in Words :
           w >= i /\ m[w] # {} /\ \A v \in Words : (v >= i /\ m[v] # {}) => w <= v
    ELSE MAX_NVIC_REG_WORDS - 1
\* no word after w is left to store
LastStore(m, w) == ~ \E v \in Words : v > w /\ m[v] # {}

\* a store of *(NVIC_Mask_t*)&NVIC->ISER[0] = nvicMask, made outside any section
NVIC_TriggerSpecificPendingInterrupts_ISER ==
  /\ pc = "nvic_iser"
  /\ LET w == NextStore(nvicMask, local)
     IN /\ iser' = [iser EXCEPT ![w] = @ \cup nvicMask[w]]
        /\ IF LastStore(nvicMask, w)
             THEN pc' = "nvic_isb" /\ local' = 0
             ELSE pc' = pc /\ local' = w + 1
  /\ Called("NVIC_TriggerSpecificPendingInterrupts_ISER", 0)
  /\ UNCHANGED <<cortexM, primask, basepri, basePriLevel, vectactive, mask, stack,
                 nvicMask, call>>

\* __ISB()
NVIC_TriggerSpecificPendingInterrupts_ISB ==
  /\ pc = "nvic_isb"
  /\ pc' = "nvic_icer"
  /\ Called("NVIC_TriggerSpecificPendingInterrupts_ISB", 0)
  /\ UNCHANGED <<cortexM, primask, basepri, basePriLevel, iser, vectactive, mask, stack,
                 local, nvicMask, call>>

\* a store of *(NVIC_Mask_t*)&NVIC->ICER[0] = nvicMask; the last one returns
NVIC_TriggerSpecificPendingInterrupts_ICER ==
  /\ pc = "nvic_icer"
  /\ LET w == NextStore(nvicMask, local)
     IN /\ iser' = [iser EXCEPT ![w] = @ \ nvicMask[w]]
        /\ IF LastStore(nvicMask, w)
             THEN pc' = "idle" /\ local' = 0 /\ nvicMask' = ZeroMask /\ call' = NoCall
             ELSE pc' = pc /\ local' = w + 1 /\ nvicMask' = nvicMask /\ call' = call
  /\ Called("NVIC_TriggerSpecificPendingInterrupts_ICER", 0)
  /\ UNCHANGED <<cortexM, primask, basepri, basePriLevel, vectactive, mask, stack>>

NVIC_GetNvicIserMask ==
  /\ pc = "idle"
  /\ mask' = iser
  /\ primask' = NO_INTERRUPTS_SECTION(primask)
  /\ Called("NVIC_GetNvicIserMask", 0)
  /\ UNCHANGED <<cortexM, nvicMask, call, basepri, basePriLevel, iser, vectactive, stack, pc, local>>

\* the value returned when the loop starts at i0, against the snapshot of ISER
IsNvicIserMaskDisabled(m, snapshot, i0) ==
  ~ \E i \in Words : i >= i0 /\ MaskAnd(m, snapshot)[i] # {}

NVIC_IsNvicIserMaskDisabled(m) ==
  /\ pc = "idle"
  /\ primask' = NO_INTERRUPTS_SECTION(primask)
  /\ \E i0 \in LoopStarts :
       Called("NVIC_IsNvicIserMaskDisabled", Bool(IsNvicIserMaskDisabled(m, iser, i0)))
  /\ UNCHANGED <<cortexM, nvicMask, call, basepri, basePriLevel, iser, vectactive, mask, stack, pc, local>>

IsIRQnDisabled(irqNum, reg) ==
  IF IS_INTERRUPT_NUM(irqNum)
    THEN (Uint8(irqNum) % 32) \notin reg[Shr(Uint8(irqNum), 5)]
    ELSE TRUE

NVIC_IsIRQnDisabled(irqNum) ==
  /\ pc = "idle"
  /\ Called("NVIC_IsIRQnDisabled", Bool(IsIRQnDisabled(irqNum, iser)))
  /\ UNCHANGED <<cortexM, nvicMask, call, primask, basepri, basePriLevel, iser, vectactive, mask, stack,
                 pc, local>>

\* ------------------------------------------------------------ IRQ state queries

IsInIrqContext == vectactive # 0

IRQ_IsInIrqContext ==
  /\ pc = "idle"
  /\ Called("IRQ_IsInIrqContext", Bool(IsInIrqContext))
  /\ UNCHANGED <<cortexM, nvicMask, call, primask, basepri, basePriLevel, iser, vectactive, mask, stack,
                 pc, local>>

\* mutant: the ASSERT accepts every core exception number
IsIRQnBlocked_Assert_AnyException(irqNum) == irqNum >= -16 /\ irqNum < 240
\* the condition of the ASSERT that opens IRQ_IsIRQnBlocked
IsIRQnBlocked_Assert(irqNum) ==
  IF cortexM >= 3
    THEN irqNum >= MemoryManagement_IRQn /\ irqNum < 240
    ELSE irqNum >= SVCall_IRQn /\ irqNum < 240

\* mutant: the threshold comparison taken as strict
IsIRQnBlocked_StrictThreshold(irqNum) ==
  IF primask % 2 # 0 THEN TRUE
  ELSE IF IsIRQnDisabled(irqNum, iser) THEN TRUE
  ELSE IF cortexM >= 3 /\ basepri # 0
            /\ NVIC_GetPriority(irqNum) > Shr(basepri, BASEPRI_START_BIT) THEN TRUE
  ELSE IF vectactive # 0
            /\ NVIC_GetPriority(irqNum) >= NVIC_GetPriority(vectactive - 16) THEN TRUE
  ELSE FALSE

\* the value IRQ_IsIRQnBlocked returns once its ASSERT has passed
IsIRQnBlocked(irqNum) ==
  IF primask % 2 # 0 THEN TRUE
  ELSE IF IsIRQnDisabled(irqNum, iser) THEN TRUE
  ELSE IF cortexM >= 3 /\ basepri # 0
            /\ NVIC_GetPriority(irqNum) >= Shr(basepri, BASEPRI_START_BIT) THEN TRUE
  ELSE IF vectactive # 0
            /\ NVIC_GetPriority(irqNum) >= NVIC_GetPriority(vectactive - 16) THEN TRUE
  ELSE FALSE

\* a failed ASSERT spins in while (1) and the call never returns
IRQ_IsIRQnBlocked(irqNum) ==
  /\ pc = "idle"
  /\ IF IsIRQnBlocked_Assert(irqNum)
       THEN /\ Called("IRQ_IsIRQnBlocked", Bool(IsIRQnBlocked(irqNum)))
            /\ pc' = pc
       ELSE /\ Called("IRQ_IsIRQnBlocked", -1)
            /\ pc' = "assert"
  /\ UNCHANGED <<cortexM, nvicMask, call, primask, basepri, basePriLevel, iser, vectactive, mask, stack, local>>

AreAllIRQnsDisabled ==
  IF cortexM >= 3
    THEN primask % 2 = 1 \/ basepri >= ThresholdValue
    ELSE primask % 2 = 1

IRQ_AreAllIRQnsDisabled ==
  /\ pc = "idle"
  /\ Called("IRQ_AreAllIRQnsDisabled", Bool(AreAllIRQnsDisabled))
  /\ UNCHANGED <<cortexM, nvicMask, call, primask, basepri, basePriLevel, iser, vectactive, mask, stack,
                 pc, local>>

\* ------------------------------------------------------------ specifications

\* masks given to the line-enable calls made around the masking sections
MaskInputs == {MaskOf({l}) : l \in Lines}

\* the masking layer under preemption: critical sections, threshold sections, the
\* state queries, handlers entering and returning, lines being enabled and disabled
Next ==
  \/ PRIMASK_EnterCriticalSection
  \/ PRIMASK_ExitCriticalSection
  \/ PRIMASK_DisableIrq
  \/ PRIMASK_EnableIrq
  \/ PRIMASK_TriggerPendingInterrupts
  \/ PRIMASK_TriggerPendingInterrupts_Remask
  \/ \E level \in LevelInputs : BASEPRI_SetPriorityLevelThreshold(level)
  \/ BASEPRI_GetPriorityLevelThreshold
  \/ BASEPRI_EnterInterruptsDisabledByThresholdSection
  \/ BASEPRI_ExitInterruptsDisabledByThresholdSection
  \/ BASEPRI_DisableIrqByThreshold
  \/ BASEPRI_EnableIrqByThreshold
  \/ BASEPRI_TriggerPendingInterruptsByThreshold
  \/ BASEPRI_TriggerPendingInterruptsByThreshold_Restore
  \/ \E m \in MaskInputs : NVIC_DisableSpecificInterrupts(m)
  \/ \E m \in MaskInputs : NVIC_EnableSpecificInterrupts(m)
  \/ IRQ_IsInIrqContext
  \/ \E irqNum \in BlockedInputs : IRQ_IsIRQnBlocked(irqNum)
  \/ IRQ_AreAllIRQnsDisabled
  \/ \E line \in Lines : IrqEntry(line)
  \/ IrqReturn

Spec == Init /\ [][Next]_vars

\* the line-enable layer called without preemption: the caller builds a mask with the
\* set/clear helpers and hands it to the enable, disable, section and query calls
NextNvic ==
  \/ PRIMASK_DisableIrq
  \/ PRIMASK_EnableIrq
  \/ \E irqNum \in IRQnInputs : NVIC_SetSpecificInterruptInAMask(irqNum)
  \/ \E irqNum \in IRQnInputs : NVIC_ClearSpecificInterruptInAMask(irqNum)
  \/ NVIC_EnterSpecificInterruptDisabledSection(mask)
  \/ NVIC_ExitSpecificInterruptDisabledSection
  \/ NVIC_DisableSpecificInterrupts(mask)
  \/ NVIC_EnableSpecificInterrupts(mask)
  \/ NVIC_GetNvicIserMask
  \/ NVIC_IsNvicIserMaskDisabled(mask)
  \/ \E irqNum \in IRQnInputs : NVIC_IsIRQnDisabled(irqNum)
  \/ NVIC_TriggerSpecificPendingInterrupts(mask)
  \/ NVIC_TriggerSpecificPendingInterrupts_ISER
  \/ NVIC_TriggerSpecificPendingInterrupts_ISB
  \/ NVIC_TriggerSpecificPendingInterrupts_ICER

SpecNvic == Init /\ [][NextNvic]_vars

\* the threshold controller called from thread mode without preemption, over every
\* kind of argument of the setter
NextThreshold ==
  \/ \E level \in LevelInputsAll : BASEPRI_SetPriorityLevelThreshold(level)
  \/ BASEPRI_GetPriorityLevelThreshold
  \/ BASEPRI_EnterInterruptsDisabledByThresholdSection
  \/ BASEPRI_ExitInterruptsDisabledByThresholdSection
  \/ BASEPRI_DisableIrqByThreshold
  \/ BASEPRI_EnableIrqByThreshold
  \/ BASEPRI_TriggerPendingInterruptsByThreshold
  \/ BASEPRI_TriggerPendingInterruptsByThreshold_Restore
  \/ \E m \in MaskInputs : NVIC_EnableSpecificInterrupts(m)
  \/ \E irqNum \in BlockedInputs : IRQ_IsIRQnBlocked(irqNum)
  \/ IRQ_AreAllIRQnsDisabled

SpecThreshold == Init /\ [][NextThreshold]_vars

\* masks given to the calls around NVIC_TriggerSpecificPendingInterrupts
PulseMasks == {MaskOf({3}), MaskOf(Lines), MaskOf(PulseLines)}

\* the pulse of disabled lines: lines are enabled and disabled, the pulse is called
\* with the full mask clear or set, and the handlers of the pulsed lines preempt it
NextPulse ==
  \/ PRIMASK_DisableIrq
  \/ PRIMASK_EnableIrq
  \/ \E m \in PulseMasks : NVIC_DisableSpecificInterrupts(m)
  \/ \E m \in PulseMasks : NVIC_EnableSpecificInterrupts(m)
  \/ \E m \in PulseMasks : NVIC_TriggerSpecificPendingInterrupts(m)
  \/ NVIC_TriggerSpecificPendingInterrupts_ISER
  \/ NVIC_TriggerSpecificPendingInterrupts_ISB
  \/ NVIC_TriggerSpecificPendingInterrupts_ICER
  \/ \E line \in Lines : IrqEntry(line)
  \/ IrqReturn

SpecPulse == Init /\ [][NextPulse]_vars

\* a context in which calls are made: thread mode after reset, or the handler of
\* line 3 that has preempted thread mode
InitContexts ==
  \/ Init
  \/ /\ cortexM \in CortexBuilds
     /\ primask = 0
     /\ basepri = 0
     /\ basePriLevel = (IF cortexM >= 3 THEN 3 ELSE -1)
     /\ iser = MaskOf({3})
     /\ vectactive = 3 + 16
     /\ mask = ZeroMask
     /\ stack = <<Frame("isr", 0, <<0, ZeroMask>>, "idle")>>
     /\ pc = "idle"
     /\ local = 0
     /\ nvicMask = ZeroMask
     /\ call = NoCall
     /\ last = [op |-> "IrqEntry", ret |-> 0]

\* one context making calls until each returns: nothing preempts it, so whenever it
\* is inside a call its next instruction is executed
NextReturns ==
  \/ PRIMASK_DisableIrq
  \/ PRIMASK_EnableIrq
  \/ PRIMASK_TriggerPendingInterrupts
  \/ PRIMASK_TriggerPendingInterrupts_Remask
  \/ BASEPRI_DisableIrqByThreshold
  \/ BASEPRI_TriggerPendingInterruptsByThreshold
  \/ BASEPRI_TriggerPendingInterruptsByThreshold_Restore
  \/ \E m \in MaskInputs : NVIC_TriggerSpecificPendingInterrupts(m)
  \/ NVIC_TriggerSpecificPendingInterrupts_ISER
  \/ NVIC_TriggerSpecificPendingInterrupts_ISB
  \/ NVIC_TriggerSpecificPendingInterrupts_ICER
  \/ \E irqNum \in AssertInputs : IRQ_IsIRQnBlocked(irqNum)

SpecReturns ==
  /\ InitContexts
  /\ [][NextReturns]_vars
  /\ WF_vars(PRIMASK_TriggerPendingInterrupts_Remask)
  /\ WF_vars(BASEPRI_TriggerPendingInterruptsByThreshold_Restore)
  /\ WF_vars(NVIC_TriggerSpecificPendingInterrupts_ISER)
  /\ WF_vars(NVIC_TriggerSpecificPendingInterrupts_ISB)
  /\ WF_vars(NVIC_TriggerSpecificPendingInterrupts_ICER)

\* one context configuring the threshold and opening and closing threshold sections
NextLevels ==
  \/ \E level \in LevelInputsAll : BASEPRI_SetPriorityLevelThreshold(level)
  \/ BASEPRI_EnterInterruptsDisabledByThresholdSection
  \/ BASEPRI_ExitInterruptsDisabledByThresholdSection
  \/ BASEPRI_DisableIrqByThreshold
  \/ BASEPRI_EnableIrqByThreshold
  \/ IRQ_AreAllIRQnsDisabled

SpecLevels == Init /\ [][NextLevels]_vars

\* the two Enter operations taken instruction by instruction, so that a handler can
\* preempt between the read of the register and the write; handlers open and close
\* sections of their own and return with all of them closed
NextSave ==
  \/ PRIMASK_EnterCriticalSection_Read
  \/ PRIMASK_EnterCriticalSection_Write
  \/ PRIMASK_ExitCriticalSection
  \/ BASEPRI_EnterInterruptsDisabledByThresholdSection_Read
  \/ BASEPRI_EnterInterruptsDisabledByThresholdSection_Write
  \/ BASEPRI_ExitInterruptsDisabledByThresholdSection
  \/ \E level \in LevelInputs : BASEPRI_SetPriorityLevelThreshold(level)
  \/ \E m \in MaskInputs : NVIC_EnableSpecificInterrupts(m)
  \/ \E line \in Lines : IrqEntry(line)
  \/ IrqReturn

SpecSave == Init /\ [][NextSave]_vars

\* ------------------------------------------------------------ properties

\* C1: a PRIMASK_ExitCriticalSection that closes a section inside which neither
\* DisableIrq nor EnableIrq was called leaves PRIMASK equal to its value right before
\* the matching Enter, at every nesting depth and for either starting value.
C1_ExitRestoresMask ==
  [][(PRIMASK_ExitCriticalSection /\ Top.taint < 2) => primask' = Top.pre]_vars

\* an inner Exit has returned inside an outer section that was entered unmasked
C1_Witness ==
  /\ last.op = "PRIMASK_ExitCriticalSection"
  /\ Len(stack) = 1
  /\ Top.kind = "primask" /\ Top.pre = 0 /\ Top.taint = 0
  /\ primask = 1

InCleanCriticalSection ==
  \E i \in DOMAIN stack : stack[i].kind = "primask" /\ stack[i].taint = 0

\* C2: while a critical section is open in which neither EnableIrq nor TriggerPending
\* was called, PRIMASK is set in every state, and no interrupt handler is entered.
C2_ExclusionInsideSection ==
  /\ [](InCleanCriticalSection => primask = 1)
  /\ [][InCleanCriticalSection => ~ \E line \in Lines : IrqEntry(line)]_vars

\* an inner Exit has returned, the outer section is still open, and an enabled line
\* is held off by nothing but the mask
C2_Witness ==
  /\ last.op = "PRIMASK_ExitCriticalSection"
  /\ InCleanCriticalSection
  /\ primask = 1 /\ basepri = 0 /\ vectactive = 0
  /\ \E line \in Lines : LineIn(line, iser)

\* C3: with a BASEPRI register, the configured threshold starts at 3; a Set call
\* returns true iff 0 < level <= 7, an accepted call makes Get return its argument, a
\* rejected call leaves what Get returns unchanged, and no other call changes it.
C3_ThresholdSetter ==
  /\ (cortexM >= 3 => GetPriorityLevelThreshold = 3)
  /\ [][cortexM >= 3 =>
          /\ \A level \in LevelInputsAll :
               BASEPRI_SetPriorityLevelThreshold(level) =>
                 /\ (last'.ret = 1) <=> (0 < level /\ level <= 7)
                 /\ GetPriorityLevelThreshold' =
                      (IF 0 < level /\ level <= 7 THEN level ELSE GetPriorityLevelThreshold)
          /\ (~ \E level \in LevelInputsAll : BASEPRI_SetPriorityLevelThreshold(level))
               => GetPriorityLevelThreshold' = GetPriorityLevelThreshold]_vars

\* a call was rejected after 7 had been accepted, and 7 is still configured
C3_Witness ==
  /\ cortexM >= 3
  /\ last.op = "BASEPRI_SetPriorityLevelThreshold" /\ last.ret = 0
  /\ GetPriorityLevelThreshold = 7

\* C4: right after a threshold section is entered in thread mode with PRIMASK clear,
\* an enabled peripheral line is reported blocked iff its priority is >= the
\* configured threshold.
C4_BlockedAtOrBelowThreshold ==
  (/\ last.op = "BASEPRI_EnterInterruptsDisabledByThresholdSection"
   /\ cortexM >= 3 /\ vectactive = 0 /\ primask = 0)
  => \A line \in Lines :
       LineIn(line, iser) =>
         (IsIRQnBlocked(line) <=> NVIC_GetPriority(line) >= GetPriorityLevelThreshold)

\* threshold 5: the line of priority 6 is blocked, the line of priority 3 is not
C4_Witness ==
  /\ last.op = "BASEPRI_EnterInterruptsDisabledByThresholdSection"
  /\ cortexM >= 3 /\ vectactive = 0 /\ primask = 0
  /\ GetPriorityLevelThreshold = 5
  /\ LineIn(3, iser) /\ LineIn(33, iser)
  /\ IsIRQnBlocked(33) /\ ~ IsIRQnBlocked(3)

\* C5: with a BASEPRI register, every threshold-section Exit leaves BASEPRI equal to
\* the raw value it held right before the matching Enter, at every nesting depth and
\* whatever was done to the configured threshold in between.
C5_ExitRestoresRawBasepri ==
  [][(BASEPRI_ExitInterruptsDisabledByThresholdSection /\ cortexM >= 3)
       => basepri' = Top.pre]_vars

\* an inner Exit has put back a raw value that is neither 0 nor the threshold
\* configured now
C5_Witness ==
  /\ last.op = "BASEPRI_ExitInterruptsDisabledByThresholdSection"
  /\ cortexM >= 3
  /\ Len(stack) = 1 /\ Top.kind = "basepri"
  /\ basepri # 0 /\ basepri # ThresholdValue

\* C6 as stated: for every mask and valid line L, setting then clearing L gives the
\* starting mask back.
C6_RoundTripIsIdentity ==
  \A L \in {n \in IRQnInputs : 0 <= n /\ n < 240} :
    ClearInMask(L, SetInMask(L, mask)) = mask

\* C6 amended: setting then clearing a valid line L gives the starting mask with bit
\* (L mod 32) of word (L div 32) cleared; that is the starting mask iff the bit was clear.
C6_RoundTripClearsBit ==
  \A L \in {n \in IRQnInputs : 0 <= n /\ n < 240} :
    LET r == ClearInMask(L, SetInMask(L, mask))
    IN /\ r = [w \in Words |-> IF w = L \div 32 THEN mask[w] \ {L % 32} ELSE mask[w]]
       /\ (r = mask) <=> ~ LineIn(L, mask)

\* the caller's mask holds a line of word 7 that a set call has put there
C6_Witness ==
  /\ last.op = "NVIC_SetSpecificInterruptInAMask"
  /\ LineIn(239, mask)

\* C7: a set or clear call with an identifier that is negative or >= 240 changes no
\* bit of the mask, and with a valid line L it changes at most bit (L mod 32) of
\* word (L div 32).
C7_MaskFrame ==
  [][\A irq \in IRQnInputs :
       (NVIC_SetSpecificInterruptInAMask(irq) \/ NVIC_ClearSpecificInterruptInAMask(irq))
         => IF irq < 0 \/ irq >= 240
              THEN mask' = mask
              ELSE \A w \in Words : \A b \in 0 .. 31 :
                     (w # irq \div 32 \/ b # irq % 32)
                       => ((b \in mask'[w]) <=> (b \in mask[w]))]_vars

\* C8: an Exit that directly follows its Enter leaves the line-enable register equal
\* to what it was before the Enter.
C8_EnterExitRestoresEnable ==
  [][(/\ NVIC_ExitSpecificInterruptDisabledSection
      /\ last.op = "NVIC_EnterSpecificInterruptDisabledSection")
       => iser' = Top.pre]_vars

\* C9: for a non-empty mask the query is true right after DisableSpecific(mask) and
\* false right after EnableSpecific(mask), and it always returns true iff no bit of
\* the mask is enabled.
C9_MaskDisabledQuery ==
  \A i0 \in LoopStarts :
    /\ (last.op = "NVIC_DisableSpecificInterrupts" /\ mask # ZeroMask)
         => IsNvicIserMaskDisabled(mask, iser, i0)
    /\ (last.op = "NVIC_EnableSpecificInterrupts" /\ mask # ZeroMask)
         => ~ IsNvicIserMaskDisabled(mask, iser, i0)
    /\ IsNvicIserMaskDisabled(mask, iser, i0) <=> (MaskAnd(mask, iser) = ZeroMask)

\* C10: whenever IRQ_AreAllIRQnsDisabled returns true, IRQ_IsIRQnBlocked returns true
\* for every valid line.
C10_AllDisabledImpliesEachBlocked ==
  AreAllIRQnsDisabled => \A line \in Lines : IsIRQnBlocked(line)

\* C11: NVIC_TriggerSpecificPendingInterrupts(target) writes to ISER, and after the
\* barrier to ICER, exactly the lines of target that are disabled at the call (none
\* already enabled, and nothing at all when every line of target is enabled); the
\* pulsed lines are enabled at the barrier; and when no handler ran inside the call
\* the enable register after the call equals the register before it.
C11_PulseExactlyDisabledTargets ==
  /\ [][\A target \in PulseMasks :
          NVIC_TriggerSpecificPendingInterrupts(target) =>
            IF MaskAndNot(target, iser) = ZeroMask
              THEN pc' = "idle"
              ELSE pc' = "nvic_iser" /\ nvicMask' = MaskAndNot(target, iser)]_vars
  /\ []((pc = "nvic_isb" /\ call.clean) => MaskAndNot(nvicMask, iser) = ZeroMask)
  /\ [][(NVIC_TriggerSpecificPendingInterrupts_ICER /\ pc' = "idle" /\ call.clean)
          => iser' = call.reg]_vars

\* C12: PRIMASK_TriggerPendingInterrupts called with PRIMASK set clears it and reaches
\* the barrier; at the barrier the only steps are a handler entry or the rest of the
\* call, which sets PRIMASK and returns; the barrier is reached only by that unmask
\* (or by the return of a handler that preempted it). Called with PRIMASK clear, the
\* call returns at once with no barrier and changes no register.
C12_UnmaskBarrierRemask ==
  /\ [][PRIMASK_TriggerPendingInterrupts =>
          /\ IF primask = 1 THEN primask' = 0 /\ pc' = "primask_isb"
                            ELSE primask' = 0 /\ pc' = "idle"
          /\ UNCHANGED <<basepri, basePriLevel, iser, vectactive>>]_vars
  /\ [][pc = "primask_isb" =>
          \/ \E line \in Lines : IrqEntry(line)
          \/ PRIMASK_TriggerPendingInterrupts_Remask /\ primask' = 1 /\ pc' = "idle"]_vars
  /\ [][(pc # "primask_isb" /\ pc' = "primask_isb") => (primask' = 0 \/ IrqReturn)]_vars

\* with a BASEPRI register (no other call reaches this barrier): a handler is running
\* that preempted the call at its barrier
C12_Witness ==
  /\ cortexM >= 3
  /\ vectactive # 0
  /\ stack # <<>> /\ Top.kind = "isr" /\ Top.pc = "primask_isb"

\* C13 as stated: Enter(&saved, d) stores in saved the enable register as it was at
\* the call and leaves the set of enabled lines equal to d.
C13_EnterReplaces ==
  [][NVIC_EnterSpecificInterruptDisabledSection(mask)
       => Top'.saved = iser /\ iser' = mask]_vars

\* C13 amended: Enter(&saved, d) stores in saved the enable register as it was at the
\* call and leaves enabled exactly the lines that were enabled and are not in d (the
\* subtraction); snapshot and write are one step, inside NO_INTERRUPTS_SECTION, and
\* PRIMASK is left as it was.
C13_EnterSubtracts ==
  [][NVIC_EnterSpecificInterruptDisabledSection(mask)
       => /\ Top'.saved = iser
          /\ \A w \in Words : iser'[w] = iser[w] \ mask[w]
          /\ PRIMASK_EnterNoInterruptsSection(primask) = 1
          /\ primask' = primask]_vars

\* an Enter has returned that was given a line that was enabled and a line that was
\* not, while another enabled line was left out of d and stays enabled
C13_Witness ==
  /\ last.op = "NVIC_EnterSpecificInterruptDisabledSection"
  /\ Top.kind = "nvic"
  /\ LineIn(3, Top.saved) /\ LineIn(3, mask) /\ ~ LineIn(3, iser)
  /\ LineIn(239, Top.saved) /\ ~ LineIn(239, mask) /\ LineIn(239, iser)

\* a copy of nvicMask to ISER or to ICER has stored some of its words and not yet all
CopyPartWay == pc \in {"nvic_iser", "nvic_icer"} /\ local # 0

\* C14: the register accesses made inside NO_INTERRUPTS_SECTION run with PRIMASK set;
\* every store of the copies NVIC_TriggerSpecificPendingInterrupts makes to ISER and
\* ICER is made with PRIMASK set; and no handler is entered between the stores to two
\* words of one copy.
C14_RegisterCopiesUnderFullMask ==
  /\ [](PRIMASK_EnterNoInterruptsSection(primask) = 1)
  /\ [][(NVIC_TriggerSpecificPendingInterrupts_ISER
           \/ NVIC_TriggerSpecificPendingInterrupts_ICER) => primask = 1]_vars
  /\ [][CopyPartWay => ~ \E line \in Lines : IrqEntry(line)]_vars

\* C15 as stated: from every reachable state and for every argument, a call that has
\* started eventually returns.
C15_EveryCallReturns == (pc # "idle") ~> (pc = "idle")

\* the identifiers IRQ_IsIRQnBlocked accepts on the build
InAcceptedRange(irqNum) ==
  (IF cortexM >= 3 THEN -12 ELSE -5) <= irqNum /\ irqNum < 240

\* C15 amended: every call eventually returns, in thread mode and in a handler,
\* except IRQ_IsIRQnBlocked given an identifier outside the range its build accepts
\* (-12..239 with a BASEPRI register, -5..239 without), which never returns.
C15_ReturnsUnlessAssertFails ==
  /\ (pc # "idle" /\ pc # "assert") ~> (pc = "idle")
  /\ [][\A irqNum \in AssertInputs :
          IRQ_IsIRQnBlocked(irqNum) =>
            IF InAcceptedRange(irqNum) THEN pc' = "idle" /\ last'.ret \in {0, 1}
                                       ELSE pc' = "assert"]_vars
  /\ [][pc = "assert" => pc' = "assert"]_vars

\* a handler has called IRQ_IsIRQnBlocked outside the accepted range and is spinning
C15_Witness ==
  /\ pc = "assert"
  /\ last.op = "IRQ_IsIRQnBlocked" /\ last.ret = -1
  /\ vectactive # 0

\* C16: on a build without a BASEPRI register, the threshold Enter returns PRIMASK and
\* sets it, the threshold Exit clears PRIMASK iff the state it is given is 0 and
\* otherwise leaves it, the threshold TriggerPending clears PRIMASK and reaches the
\* barrier iff PRIMASK is set (the remask is the PRIMASK one) -- each exactly what the
\* PRIMASK operation does, and none touches BASEPRI; the setter returns false and
\* changes nothing for every input; the configured threshold reads -1 in every state.
C16_FallbackIsFullMask ==
  /\ [](cortexM < 3 => GetPriorityLevelThreshold = -1 /\ basepri = 0)
  /\ [][cortexM < 3 =>
          /\ BASEPRI_EnterInterruptsDisabledByThresholdSection =>
               /\ last'.ret = primask /\ Top'.saved = primask
               /\ primask' = 1 /\ pc' = "idle"
          /\ BASEPRI_ExitInterruptsDisabledByThresholdSection =>
               /\ primask' = (IF Top.saved = 0 THEN 0 ELSE primask)
               /\ pc' = "idle"
          /\ BASEPRI_TriggerPendingInterruptsByThreshold =>
               IF primask = 1 THEN primask' = 0 /\ pc' = "primask_isb"
                              ELSE primask' = 0 /\ pc' = "idle"
          /\ ~ BASEPRI_TriggerPendingInterruptsByThreshold_Restore
          /\ \A level \in LevelInputs :
               BASEPRI_SetPriorityLevelThreshold(level) =>
                 last'.ret = 0 /\ basePriLevel' = basePriLevel]_vars

\* without a BASEPRI register: an inner threshold Exit has returned and left PRIMASK
\* set, inside an outer threshold section that was entered unmasked
C16_Witness ==
  /\ cortexM < 3
  /\ last.op = "BASEPRI_ExitInterruptsDisabledByThresholdSection"
  /\ Len(stack) = 1 /\ Top.kind = "basepri" /\ Top.saved = 0
  /\ primask = 1

\* C17: NVIC_IsIRQnDisabled returns true iff the enable bit of the line is clear, for
\* a valid line (0..239), and returns true whatever the enable register holds for
\* every other identifier.
C17_LineDisabledQuery ==
  [][\A irqNum \in IRQnInputs :
       NVIC_IsIRQnDisabled(irqNum) =>
         last'.ret = (IF 0 <= irqNum /\ irqNum < 240
                        THEN Bool(~ LineIn(irqNum, iser))
                        ELSE 1)]_vars

\* C18: for a valid line, IRQ_IsIRQnBlocked returns true exactly when PRIMASK is set,
\* or the line's enable bit is clear, or BASEPRI is non-zero and the line's priority
\* is >= the priority held in BASEPRI, or a handler is active and the line's priority
\* is >= the active handler's priority; it returns false otherwise.
C18_BlockedExactly ==
  [][\A line \in Lines :
       IRQ_IsIRQnBlocked(line) =>
         last'.ret = Bool(\/ primask = 1
                          \/ ~ LineIn(line, iser)
                          \/ /\ basepri # 0
                             /\ NVIC_GetPriority(line) >= basepri \div (2 ^ (8 - NVIC_PRIO_BITS))
                          \/ /\ vectactive # 0
                             /\ NVIC_GetPriority(line) >= NVIC_GetPriority(vectactive - 16))]_vars

\* a call made in a handler, under a non-zero BASEPRI, has returned false: the line
\* is enabled and more urgent than both
C18_Witness ==
  /\ last.op = "IRQ_IsIRQnBlocked" /\ last.ret = 0
  /\ vectactive # 0 /\ basepri # 0 /\ primask = 0

\* C19: with a BASEPRI register, BASEPRI_TriggerPendingInterruptsByThreshold called
\* while BASEPRI is non-zero writes 0 to it and reaches the barrier, and the rest of
\* the call writes back the raw value BASEPRI held at the call; called while BASEPRI
\* is 0 it changes nothing and reaches no barrier.
C19_ThresholdTrigger ==
  /\ [][(BASEPRI_TriggerPendingInterruptsByThreshold /\ cortexM >= 3) =>
          IF basepri # 0
            THEN basepri' = 0 /\ pc' = "basepri_isb" /\ local' = basepri
            ELSE basepri' = 0 /\ pc' = "idle"]_vars
  /\ [][BASEPRI_TriggerPendingInterruptsByThreshold_Restore =>
          basepri' = local /\ pc' = "idle"]_vars

\* a line is blocked by the threshold register holding b
BlockedByThreshold(line, b) ==
  b # 0 /\ NVIC_GetPriority(line) >= b \div (2 ^ (8 - NVIC_PRIO_BITS))

\* C20: with a BASEPRI register, every line that BASEPRI blocks right before a
\* threshold-section Enter is still blocked by BASEPRI right after it.
C20_EnterNeverWeakens ==
  [][(BASEPRI_EnterInterruptsDisabledByThresholdSection /\ cortexM >= 3) =>
       \A line \in Lines :
         BlockedByThreshold(line, basepri) => BlockedByThreshold(line, basepri')]_vars

\* the running context is between the read and the write of an Enter
BetweenReadAndWrite == pc \in {"primask_read", "basepri_read"}

\* C21: whatever handlers ran between the read and the write of an Enter, each having
\* closed every section it opened, the state the Enter returns is the value the
\* register holds when the write is made, and the matching Exit leaves the register
\* at the value it held right before that write.
C21_SaveSurvivesPreemption ==
  /\ [][PRIMASK_EnterCriticalSection_Write => Top'.saved = primask]_vars
  /\ [][BASEPRI_EnterInterruptsDisabledByThresholdSection_Write =>
          Top'.saved = (IF cortexM >= 3 THEN basepri ELSE primask)]_vars
  /\ [][PRIMASK_ExitCriticalSection => primask' = Top.pre]_vars
  /\ [][BASEPRI_ExitInterruptsDisabledByThresholdSection =>
          IF cortexM >= 3 THEN basepri' = Top.pre ELSE primask' = Top.pre]_vars

\* a handler that preempted a threshold Enter between its read and its write has
\* opened and closed a threshold section of its own, under a threshold it changed
C21_Witness ==
  /\ cortexM >= 3
  /\ vectactive # 0
  /\ Len(stack) = 1 /\ Top.kind = "isr" /\ Top.pc = "basepri_read"
  /\ last.op = "BASEPRI_ExitInterruptsDisabledByThresholdSection"
  /\ basePriLevel = 5

\* C22: every line-enable operation that brackets its register access in
\* NO_INTERRUPTS_SECTION -- Enter, Exit (through DisableSpecific), DisableSpecific,
\* EnableSpecific, GetNvicIserMask, IsNvicIserMaskDisabled and the snapshot of
\* TriggerSpecificPending -- leaves PRIMASK at the value it had at the call.
C22_SectionKeepsFullMask ==
  [][last'.op \in {"NVIC_EnterSpecificInterruptDisabledSection",
                   "NVIC_ExitSpecificInterruptDisabledSection",
                   "NVIC_DisableSpecificInterrupts",
                   "NVIC_EnableSpecificInterrupts",
                   "NVIC_GetNvicIserMask",
                   "NVIC_IsNvicIserMaskDisabled",
                   "NVIC_TriggerSpecificPendingInterrupts"}
       => primask' = primask]_vars

\* the snapshot of a pulse was taken with PRIMASK set and PRIMASK is still set, the
\* pulse being under way
C22_Witness ==
  /\ last.op = "NVIC_TriggerSpecificPendingInterrupts"
  /\ pc = "nvic_iser"
  /\ primask = 1

\* C23: a line that a handler enabled after the snapshot of a pulse and that nobody
\* disabled since is enabled when NVIC_TriggerSpecificPendingInterrupts returns, and
\* the pulse writes to ISER and ICER no line outside its target.
C23_NoLostEnable ==
  /\ [][(NVIC_TriggerSpecificPendingInterrupts_ICER /\ pc' = "idle" /\ call # NoCall)
          => \A w \in Words : call.enabled[w] \subseteq iser'[w]]_vars
  /\ [][\A target \in PulseMasks :
          NVIC_TriggerSpecificPendingInterrupts(target)
            => \A w \in Words : nvicMask'[w] \subseteq target[w]]_vars

\* C24: for every identifier the ASSERT of IRQ_IsIRQnBlocked accepts, core exceptions
\* included, the query returns false when nothing blocks the line: full mask clear,
\* threshold register 0, thread mode and, for a peripheral line, its enable bit set.
C24_UnblockedIsNotBlocked ==
  [][\A irqNum \in BlockedInputs :
       (/\ IRQ_IsIRQnBlocked(irqNum)
        /\ IsIRQnBlocked_Assert(irqNum)
        /\ primask % 2 = 0
        /\ basepri = 0
        /\ vectactive = 0
        /\ (irqNum >= 0 => ~IsIRQnDisabled(irqNum, iser)))
         => last'.ret = 0]_vars

\* C25: for every threshold level 1..7 and every priority-field width of a device
\* with BASEPRI, the value that threshold Enter and BASEPRI_DisableIrqByThreshold
\* write is non-zero and below 256, the register holds exactly that value after the
\* write, and IRQ_AreAllIRQnsDisabled is true right after Enter.
C25_ThresholdValueFits ==
  /\ \A level \in INTERRUPT_HIGHEST_PRIORITY + 1 .. INTERRUPT_LOWEST_PRIORITY :
       \A prioBits \in PrioBitsWidths :
         /\ BasePriValue(level, prioBits) # 0
         /\ BasePriValue(level, prioBits) < 256
  /\ [][(/\ cortexM >= 3
         /\ last'.op \in {"BASEPRI_EnterInterruptsDisabledByThresholdSection",
                          "BASEPRI_DisableIrqByThreshold"})
          => /\ basePriLevel \in INTERRUPT_HIGHEST_PRIORITY + 1 .. INTERRUPT_LOWEST_PRIORITY
             /\ ThresholdValue # 0
             /\ ThresholdValue < 256
             /\ basepri' = ThresholdValue
             /\ (last'.op = "BASEPRI_EnterInterruptsDisabledByThresholdSection"
                   => AreAllIRQnsDisabled')]_vars
C25_Witness ==
  /\ cortexM >= 3
  /\ last.op = "BASEPRI_EnterInterruptsDisabledByThresholdSection"
  /\ basePriLevel = INTERRUPT_LOWEST_PRIORITY
  /\ basepri = 112
  /\ AreAllIRQnsDisabled

====
